---- MODULE Spec2Model ----
(***************************************************************************)
(* Model of the MCP STDIO <-> HTTP OAuth proxy (src/bin/cli.js).           *)
(*                                                                         *)
(* The process is single-threaded: a handler (one invocation of the async  *)
(* stdin 'data' callback) runs synchronously until it suspends on a        *)
(* network call or on the login callback.  A handler's program counter is  *)
(* either a synchronous position (the handler is running now) or a wait    *)
(* position (the handler is suspended).  Events of the environment (stdin  *)
(* chunks, HTTP responses, callbacks, timers, the clock) are delivered     *)
(* only when no handler is at a synchronous position.                      *)
(***************************************************************************)
EXTENDS Integers, Sequences, FiniteSets, TLC

\* ------------------------------ bounds ---------------------------------
MaxChunks == 2
MaxLines == 2
MaxIssued == 2
MaxTicks == 1
ClockStep == 100
MaxPathLen == 4
MaxFrameChunks == 3

\* ------------------------- program constants ---------------------------
FreshMargin == 60
SafetyMargin == 30
DefaultLifetime == 3600
ParseErrorCode == -32700
TransportErrorCode == -32000
ForwardErrorCode == -32001

\* ------------------------------ values ---------------------------------
Null == "null"
Undefined == "undefined"
NL == "\n"
SP == " "
TxtBad == "not json"
TxtNull == "null"
TxtNoId == "{\"jsonrpc\":\"2.0\",\"method\":\"ping\"}"
TxtReq == "{\"jsonrpc\":\"2.0\",\"id\":1,\"method\":\"ping\"}"
\* TxtReq cut in two pieces
TxtReqHead == "{\"jsonrpc\":\"2.0\","
TxtReqTail == "\"id\":1,\"method\":\"ping\"}"

Handlers == 1..MaxChunks

\* A parsed JSON value: JSON null, or an object with an optional id.
JNull == [isNull |-> TRUE, id |-> Undefined]
JNoId == [isNull |-> FALSE, id |-> Undefined]
JReq == [isNull |-> FALSE, id |-> "1"]
NoReq == [isNull |-> FALSE, id |-> "none"]

Issuer == "https://idp.example.com"
OtherIssuer == "https://old.example.com"


\* Cache records.  Each "No..." record stands for an absent (or unreadable)
\* cache file: readJSON returns null for it.
NoDoc == [issuer |-> Undefined, authz |-> FALSE, token |-> FALSE, reg |-> FALSE]
FullDoc == [issuer |-> Issuer, authz |-> TRUE, token |-> TRUE, reg |-> TRUE]
NoRegDoc == [issuer |-> Issuer, authz |-> TRUE, token |-> TRUE, reg |-> FALSE]

RedirectUri == "http://127.0.0.1:38573/callback"
NoClient == [issuer |-> Undefined, client_id |-> Undefined, redirect_uris |-> <<>>]
CachedClient == [issuer |-> Issuer, client_id |-> "c0", redirect_uris |-> <<RedirectUri>>]
StaleClient ==
    [issuer |-> OtherIssuer, client_id |-> "c0", redirect_uris |-> <<RedirectUri>>]

\* expires_in = -1 stands for a token response without expires_in.
NoExpiresIn == -1
NoToken == [access |-> -1, refresh |-> FALSE, expires_in |-> NoExpiresIn, expires_at |-> -1]
CachedToken(rt, at) ==
    [access |-> 0, refresh |-> rt, expires_in |-> DefaultLifetime, expires_at |-> at]

\* A URL is a sequence of text pieces: its origin, then the characters of
\* its path.
WellKnownSegment == "/.well-known/oauth-authorization-server"
Slash == "/"
NoUrl == [issuer |-> <<>>, wellKnown |-> <<>>]

NoListener == [owner |-> 0, state |-> Undefined, settled |-> "none", closing |-> FALSE]

\* ------------------------- pure functions ------------------------------
\* buf.indexOf('\n'), 1-based; 0 when there is no newline.
IndexOfNL(s) ==
    IF \E i \in 1..Len(s) : s[i] = NL
    THEN CHOOSE i \in 1..Len(s) : s[i] = NL /\ \A k \in 1..(i-1) : s[k] # NL
    ELSE 0

RECURSIVE TrimLeft(_)
TrimLeft(s) == IF s # <<>> /\ Head(s) = SP THEN TrimLeft(Tail(s)) ELSE s

RECURSIVE TrimRight(_)
TrimRight(s) ==
    IF s # <<>> /\ s[Len(s)] = SP THEN TrimRight(SubSeq(s, 1, Len(s)-1)) ELSE s

\* String.prototype.trim on a line (a sequence of text pieces).
Trim(s) == TrimRight(TrimLeft(s))

\* JSON.parse of a trimmed line: exactly one JSON text parses; junk, or two
\* values on one line, throw.
JSONParse(line) ==
    IF Len(line) = 1 /\ line[1] = TxtNull THEN [ok |-> TRUE, value |-> JNull]
    ELSE IF Len(line) = 1 /\ line[1] = TxtNoId THEN [ok |-> TRUE, value |-> JNoId]
    ELSE IF Len(line) = 1 /\ line[1] = TxtReq THEN [ok |-> TRUE, value |-> JReq]
    ELSE IF line = <<TxtReqHead, TxtReqTail>> THEN [ok |-> TRUE, value |-> JReq]
    ELSE [ok |-> FALSE, value |-> NoReq]

\* j.id ?? null  (evaluated only where j is not null; see ThrowsOnId)
IdOrNull(j) == IF j.id = Undefined THEN Null ELSE j.id

\* j.id throws a TypeError when j is JSON null.
ThrowsOnId(j) == j.isNull

ErrorResp(id, code, msg) ==
    [jsonrpc |-> "2.0", id |-> id, error |-> [code |-> code, message |-> msg]]

ParseErrorResp == ErrorResp(Null, ParseErrorCode, "Parse error")

\* The remote's 200 body for a payload.
RemoteBody(j) ==
    [jsonrpc |-> "2.0", id |-> IF j.isNull THEN Null ELSE IdOrNull(j), result |-> "pong"]

\* A fast-path test with the wrong margin.
TokenFreshWrongMargin(t, clock) == t # NoToken /\ t.expires_at > clock + DefaultLifetime

\* new URL(issuer).pathname: "/" when the issuer has no path.
Pathname(u) == IF Tail(u) = <<>> THEN <<Slash>> ELSE Tail(u)

\* path.replace(/\/+$/, '')
RECURSIVE StripTrailingSlashes(_)
StripTrailingSlashes(p) ==
    IF p # <<>> /\ p[Len(p)] = Slash
    THEN StripTrailingSlashes(SubSeq(p, 1, Len(p) - 1)) ELSE p

\* A derivation that appends the well-known segment to the issuer.
AsWellKnownAppended(u) ==
    <<Head(u)>> \o StripTrailingSlashes(Pathname(u)) \o <<WellKnownSegment>>

\* asWellKnownFromIssuer(issuer)
AsWellKnownFromIssuer(u) ==
    LET base == Head(u)
        path == StripTrailingSlashes(Pathname(u))
    IN IF path # <<>> /\ path # <<Slash>>
       THEN <<base, WellKnownSegment>> \o path
       ELSE <<base, WellKnownSegment>>

\* ensureToken's fast-path test: tok && tok.expires_at > now+60
TokenFresh(t, clock) == t # NoToken /\ t.expires_at > clock + FreshMargin

\* fetchToken's stamp: now + (tok.expires_in || 3600) - 30
StampExpiry(clock, expiresIn) ==
    clock + (IF expiresIn = NoExpiresIn \/ expiresIn = 0 THEN DefaultLifetime ELSE expiresIn)
          - SafetyMargin

\* ------------------------------ inputs ---------------------------------
\* Lines the client sends: junk, JSON null, a request, a blank line.
LineTexts == { <<TxtBad>>, <<TxtNull>>, <<TxtReq>>, <<SP>> }

RECURSIVE ChunksOf(_)
ChunksOf(n) ==
    IF n = 0 THEN { <<>> }
    ELSE { c \o l \o <<NL>> : c \in ChunksOf(n-1), l \in LineTexts }

\* stdin chunks: one to n complete lines.
Chunks(n) == UNION { ChunksOf(k) : k \in 1..n }

\* Number of '\n' in a chunk.
RECURSIVE CountNL(_)
CountNL(c) ==
    IF c = <<>> THEN 0 ELSE (IF Head(c) = NL THEN 1 ELSE 0) + CountNL(Tail(c))

\* Issuer URLs: three origins, each with no path or with a path of up to
\* MaxPathLen characters.
PathChars == { Slash, "a", "b" }

RECURSIVE PathsOfLen(_)
PathsOfLen(n) ==
    IF n = 1 THEN { <<Slash>> }
    ELSE { p \o <<c>> : p \in PathsOfLen(n - 1), c \in PathChars }

IssuerPaths == { <<>> } \cup UNION { PathsOfLen(n) : n \in 1..MaxPathLen }

IssuerURLs ==
    { <<o>> \o p : o \in { Issuer, OtherIssuer, "http://127.0.0.1:9000" },
                   p \in IssuerPaths }

\* stdin chunks that cut the stream anywhere: a piece of a line, the rest of
\* it, a line followed by a piece of the next, a bare newline, two lines.
FrameChunks ==
    { <<TxtReqHead>>, <<TxtReqTail, NL>>, <<TxtReq, NL, TxtReqHead>>, <<NL>>,
      <<TxtBad, NL, TxtReq, NL>> }

PRMResponses ==
    { [ok |-> FALSE, issuer |-> Undefined],
      [ok |-> TRUE, issuer |-> Undefined],
      [ok |-> TRUE, issuer |-> Issuer] }

ASResponses ==
    { [ok |-> FALSE, doc |-> NoDoc],
      [ok |-> TRUE, doc |-> FullDoc],
      [ok |-> TRUE, doc |-> [NoRegDoc EXCEPT !.issuer = Undefined]],
      [ok |-> TRUE, doc |-> [FullDoc EXCEPT !.token = FALSE]] }

TokenResponses ==
    { [ok |-> FALSE, expires_in |-> NoExpiresIn, refresh |-> FALSE],
      [ok |-> TRUE, expires_in |-> NoExpiresIn, refresh |-> TRUE],
      [ok |-> TRUE, expires_in |-> 0, refresh |-> TRUE],
      [ok |-> TRUE, expires_in |-> 120, refresh |-> FALSE] }

ForwardStatuses == { "ok", "401", "err" }

\* Values of b64url(randomBytes(16)), the state of a login attempt.
StateValues == { "s1", "s2" }

\* Requests to the callback server: another path, or /callback with or
\* without a code and with any state (or none).
Callbacks ==
    { [path |-> "/other", code |-> FALSE, state |-> Undefined] } \cup
    { [path |-> "/callback", code |-> c, state |-> v] :
         c \in BOOLEAN, v \in StateValues \cup { Undefined } }

\* Cache contents the process may start with: a fresh install, a discovery
\* file without authorization_endpoint, a client registered with another
\* issuer, a cached fresh token, a cached stale token.
InitCaches ==
    { [disc |-> NoDoc, client |-> NoClient, tokens |-> NoToken],
      [disc |-> [FullDoc EXCEPT !.authz = FALSE], client |-> CachedClient,
       tokens |-> NoToken],
      [disc |-> FullDoc, client |-> StaleClient, tokens |-> NoToken],
      [disc |-> FullDoc, client |-> CachedClient, tokens |-> CachedToken(TRUE, 3570)],
      [disc |-> FullDoc, client |-> CachedClient, tokens |-> CachedToken(TRUE, 60)] }

\* ------------------------------- state ---------------------------------
VARIABLES
    status,       \* "running", "exited" (process.exit(0)) or "crashed"
    buf,          \* the shared line buffer
    nchunks,      \* chunks delivered so far
    input,        \* everything delivered on stdin so far
    pc,           \* per handler: position in the code
    req,          \* per handler: j, the parsed request
    retry,        \* per handler: inside handleRequest's catch block
    issuer,       \* per handler: discover's local issuer
    as,           \* per handler: the discovery document in use
    client,       \* per handler: the client registration in use
    tok,          \* per handler: handleRequest's tok
    url,          \* per handler: getASMetadata's issuer and url
    err,          \* per handler: message of the exception in flight
    res,          \* per handler: r, the response to write
    disc,         \* DISCOVERY_FILE
    clientCache,  \* CLIENT_FILE
    tokens,       \* TOKENS_FILE
    now,          \* Math.floor(Date.now()/1000) as last read
    listener,     \* the server bound to the callback port
    issued,       \* access tokens issued by the token endpoint
    output,       \* lines written to stdout
    hist          \* per handler: log of the current request's calls

vars == <<status, buf, nchunks, input, pc, req, retry, issuer, as, client, tok, url, err,
          res, disc, clientCache, tokens, now, listener, issued, output, hist>>

\* Positions where the handler is running, and positions where it is
\* suspended on a network call or on the callback promise.
SyncPcs == { "loop", "discover", "ensureClient", "ensureToken", "login",
             "codeReceived", "forward", "hrCatch", "write", "outerCatch" }
WaitPcs == { "awaitPRM", "awaitAS", "awaitReg", "awaitRefresh", "awaitCallback",
             "awaitCode", "awaitForward" }

\* Log of the request in progress: its number among the requests of this
\* handler slot, calls of ensureToken, forwards issued, status of the first
\* forward, network calls issued; and of the latest ensureToken call: whether the cached record
\* had a refresh token, the path taken ("fast", "refresh", "refreshOk",
\* "refreshFailed", "direct") and whether an interactive login was started.
EmptyHist == [seq |-> 0, nens |-> 0, nfwd |-> 0, st1 |-> "none", ncalls |-> 0,
              hadRT |-> FALSE, path |-> "none", login |-> FALSE]

\* The state as one record, for the operators that model the code.
St ==
    [status |-> status, buf |-> buf, pc |-> pc, req |-> req, retry |-> retry,
     issuer |-> issuer, as |-> as, client |-> client, tok |-> tok, url |-> url,
     err |-> err,
     res |-> res, disc |-> disc, clientCache |-> clientCache, tokens |-> tokens,
     now |-> now, listener |-> listener, issued |-> issued,
     output |-> output, hist |-> hist]

Become(s) ==
    /\ status' = s.status
    /\ buf' = s.buf
    /\ pc' = s.pc
    /\ req' = s.req
    /\ retry' = s.retry
    /\ issuer' = s.issuer
    /\ as' = s.as
    /\ client' = s.client
    /\ tok' = s.tok
    /\ url' = s.url
    /\ err' = s.err
    /\ res' = s.res
    /\ disc' = s.disc
    /\ clientCache' = s.clientCache
    /\ tokens' = s.tokens
    /\ now' = s.now
    /\ listener' = s.listener
    /\ issued' = s.issued
    /\ output' = s.output
    /\ hist' = s.hist

Init ==
    /\ status = "running"
    /\ buf = <<>>
    /\ nchunks = 0
    /\ input = <<>>
    /\ pc = [h \in Handlers |-> "done"]
    /\ req = [h \in Handlers |-> NoReq]
    /\ retry = [h \in Handlers |-> FALSE]
    /\ issuer = [h \in Handlers |-> Undefined]
    /\ as = [h \in Handlers |-> NoDoc]
    /\ client = [h \in Handlers |-> NoClient]
    /\ tok = [h \in Handlers |-> NoToken]
    /\ url = [h \in Handlers |-> NoUrl]
    /\ err = [h \in Handlers |-> ""]
    /\ res = [h \in Handlers |-> ParseErrorResp]
    /\ \E c \in InitCaches :
          /\ disc = c.disc
          /\ clientCache = c.client
          /\ tokens = c.tokens
    /\ now = 0
    /\ listener = NoListener
    /\ issued = 0
    /\ output = <<>>
    /\ hist = [h \in Handlers |-> EmptyHist]

\* ------------------------------ helpers --------------------------------
\* An exception leaves handleRequest (or is thrown before its try block):
\* the stdin handler's catch block runs next.
Throw(s, h, msg) == [s EXCEPT !.err[h] = msg, !.pc[h] = "outerCatch"]

\* The handler is back at the head of the while loop; the locals of the
\* finished iteration are gone.
BackToLoop(s, h) ==
    [s EXCEPT !.pc[h] = "loop", !.req[h] = NoReq, !.retry[h] = FALSE,
              !.issuer[h] = Undefined, !.as[h] = NoDoc, !.client[h] = NoClient,
              !.tok[h] = NoToken, !.url[h] = NoUrl, !.err[h] = "",
              !.res[h] = ParseErrorResp,
              !.hist[h] = [EmptyHist EXCEPT !.seq = s.hist[h].seq]]

\* Math.floor(Date.now()/1000): the clock has not moved since it was last
\* read, or it has moved on.
ClockReads ==
    { now } \cup (IF now < MaxTicks * ClockStep THEN { now + ClockStep } ELSE {})

\* ---------------------------- STDIO loop -------------------------------
\* A loop that answers a blank line like any other line.
ReadLoopAnswersBlank(s, h) ==
    LET i == IndexOfNL(s.buf)
        line == Trim(SubSeq(s.buf, 1, i - 1))
        rest == SubSeq(s.buf, i + 1, Len(s.buf))
        p == JSONParse(line)
    IN IF i = 0 THEN [s EXCEPT !.pc[h] = "done"]
       ELSE IF ~p.ok
       THEN [s EXCEPT !.buf = rest, !.output = Append(@, ParseErrorResp)]
       ELSE [s EXCEPT !.buf = rest, !.req[h] = p.value, !.pc[h] = "discover",
                      !.hist[h] = [EmptyHist EXCEPT !.seq = s.hist[h].seq + 1]]

\* A loop that stops at the first line it cannot parse.
ReadLoopStopsOnParseError(s, h) ==
    LET i == IndexOfNL(s.buf)
        line == Trim(SubSeq(s.buf, 1, i - 1))
        rest == SubSeq(s.buf, i + 1, Len(s.buf))
        p == JSONParse(line)
    IN IF i = 0 THEN [s EXCEPT !.pc[h] = "done"]
       ELSE IF line = <<>> THEN [s EXCEPT !.buf = rest]
       ELSE IF ~p.ok
       THEN [s EXCEPT !.buf = rest, !.output = Append(@, ParseErrorResp),
                      !.pc[h] = "done"]
       ELSE [s EXCEPT !.buf = rest, !.req[h] = p.value, !.pc[h] = "discover",
                      !.hist[h] = [EmptyHist EXCEPT !.seq = s.hist[h].seq + 1]]

\* One iteration of while((i=buf.indexOf('\n'))>=0){ ... } up to the call of
\* handleRequest, or the exit of the loop.
ReadLoop(s, h) ==
    LET i == IndexOfNL(s.buf)
        line == Trim(SubSeq(s.buf, 1, i - 1))
        rest == SubSeq(s.buf, i + 1, Len(s.buf))
        p == JSONParse(line)
    IN IF i = 0 THEN [s EXCEPT !.pc[h] = "done"]
       ELSE IF line = <<>> THEN [s EXCEPT !.buf = rest]
       ELSE IF ~p.ok
       THEN [s EXCEPT !.buf = rest, !.output = Append(@, ParseErrorResp)]
       ELSE [s EXCEPT !.buf = rest, !.req[h] = p.value, !.pc[h] = "discover",
                      !.hist[h] = [EmptyHist EXCEPT !.seq = s.hist[h].seq + 1]]

\* process.stdout.write(JSON.stringify(r)+'\n')
WriteResult(s, h) ==
    BackToLoop([s EXCEPT !.output = Append(@, s.res[h])], h)

\* catch(e){ process.stdout.write(JSON.stringify({..., id: j.id??null, ...
\* With j = null, j.id throws inside the catch block: the rejection of the
\* async handler is unhandled and ends the process.
OuterCatch(s, h) ==
    IF ThrowsOnId(s.req[h])
    THEN [s EXCEPT !.status = "crashed"]
    ELSE BackToLoop(
           [s EXCEPT !.output = Append(@,
               ErrorResp(IdOrNull(s.req[h]), TransportErrorCode, s.err[h]))], h)

\* ----------------------------- discovery -------------------------------
\* A discover that ignores the cache.
DiscoverAlwaysFetches(s, h) ==
    [s EXCEPT !.pc[h] = "awaitPRM", !.hist[h].ncalls = @ + 1]

\* discover(): cache hit, or the PRM fetch is issued.
Discover(s, h) ==
    IF s.disc # NoDoc /\ s.disc.issuer # Undefined
    THEN [s EXCEPT !.as[h] = s.disc, !.pc[h] = "ensureClient"]
    ELSE [s EXCEPT !.pc[h] = "awaitPRM", !.hist[h].ncalls = @ + 1]

\* The PRM fetch settles: pick the issuer and issue the AS metadata fetch.
OnPRM(s, h, r) ==
    IF ~r.ok THEN Throw(s, h, "prm fetch failed")
    ELSE IF r.issuer = Undefined
    THEN Throw(s, h, "[prm] no authorization server listed")
    ELSE [s EXCEPT !.issuer[h] = r.issuer, !.pc[h] = "awaitAS",
                   !.url[h] = [issuer |-> <<r.issuer>>,
                               wellKnown |-> AsWellKnownFromIssuer(<<r.issuer>>)],
                   !.hist[h].ncalls = @ + 1]

\* The AS metadata fetch settles: stamp the issuer, validate, persist.
OnASMetadata(s, h, r) ==
    LET asMeta == IF r.doc.issuer = Undefined
                  THEN [r.doc EXCEPT !.issuer = s.issuer[h]] ELSE r.doc
    IN IF ~r.ok THEN Throw(s, h, "as fetch failed")
       ELSE IF ~asMeta.authz \/ ~asMeta.token
       THEN Throw(s, h, "[as] invalid AS metadata: missing endpoints")
       ELSE [s EXCEPT !.disc = asMeta, !.as[h] = asMeta, !.url[h] = NoUrl,
                      !.pc[h] = "ensureClient"]

\* ---------------------------- registration -----------------------------
\* A dynamicRegister that reuses whatever registration is cached.
DynamicRegisterReusesAny(s, h) ==
    IF s.clientCache # NoClient
    THEN [s EXCEPT !.client[h] = s.clientCache, !.pc[h] = "ensureToken"]
    ELSE IF ~s.as[h].reg
    THEN Throw(s, h, "[oidc] no registration endpoint: enable DCR or pre-provision a client")
    ELSE [s EXCEPT !.pc[h] = "awaitReg", !.hist[h].ncalls = @ + 1]

\* dynamicRegister(as): cache hit, missing endpoint, or the POST is issued.
DynamicRegister(s, h) ==
    IF s.clientCache # NoClient /\ s.clientCache.issuer = s.as[h].issuer
    THEN [s EXCEPT !.client[h] = s.clientCache, !.pc[h] = "ensureToken"]
    ELSE IF ~s.as[h].reg
    THEN Throw(s, h, "[oidc] no registration endpoint: enable DCR or pre-provision a client")
    ELSE [s EXCEPT !.pc[h] = "awaitReg", !.hist[h].ncalls = @ + 1]

\* The registration POST settles.
OnRegistration(s, h, ok) ==
    IF ~ok THEN Throw(s, h, "[oidc] registration failed")
    ELSE LET meta == [issuer |-> s.as[h].issuer, client_id |-> "c1",
                      redirect_uris |-> <<RedirectUri>>]
         IN [s EXCEPT !.clientCache = meta, !.client[h] = meta,
                      !.pc[h] = "ensureToken"]

\* ------------------------------ tokens ---------------------------------
\* An ensureToken that goes to the interactive login whenever the cached
\* token is stale.
EnsureTokenSkipsRefresh(s, h, clock) ==
    LET t == s.tokens
        entered == [s EXCEPT !.now = clock, !.hist[h].nens = @ + 1,
                             !.hist[h].login = FALSE,
                             !.hist[h].hadRT = (t # NoToken /\ t.refresh)]
    IN IF TokenFresh(t, clock)
       THEN [entered EXCEPT !.tok[h] = t, !.pc[h] = "forward", !.hist[h].path = "fast"]
       ELSE [entered EXCEPT !.pc[h] = "login", !.hist[h].path = "direct"]

\* ensureToken(as, client): fast path, refresh POST issued, or fall through
\* to interactiveLogin.
EnsureToken(s, h, clock) ==
    LET t == s.tokens
        entered == [s EXCEPT !.now = clock, !.hist[h].nens = @ + 1,
                             !.hist[h].login = FALSE,
                             !.hist[h].hadRT = (t # NoToken /\ t.refresh)]
    IN IF TokenFresh(t, clock)
       THEN [entered EXCEPT !.tok[h] = t, !.pc[h] = "forward", !.hist[h].path = "fast"]
       ELSE IF t # NoToken /\ t.refresh
       THEN [entered EXCEPT !.pc[h] = "awaitRefresh", !.hist[h].path = "refresh",
                            !.hist[h].ncalls = @ + 1]
       ELSE [entered EXCEPT !.pc[h] = "login", !.hist[h].path = "direct"]

\* A fetchToken that keeps the refresh token of the previous record when the
\* response has none.
FetchTokenKeepsRefresh(s, h, r, clock) ==
    LET t == [access |-> s.issued + 1, refresh |-> (r.refresh \/ s.tokens.refresh),
              expires_in |-> r.expires_in,
              expires_at |-> StampExpiry(clock, r.expires_in)]
    IN [s EXCEPT !.now = clock, !.tokens = t, !.tok[h] = t,
                 !.issued = @ + 1, !.pc[h] = "forward"]

\* fetchToken's success path: stamp expires_at on the response, persist the
\* record and return it (to ensureToken, which returns it to handleRequest).
FetchToken(s, h, r, clock) ==
    LET t == [access |-> s.issued + 1, refresh |-> r.refresh,
              expires_in |-> r.expires_in,
              expires_at |-> StampExpiry(clock, r.expires_in)]
    IN [s EXCEPT !.now = clock, !.tokens = t, !.tok[h] = t,
                 !.issued = @ + 1, !.pc[h] = "forward"]

\* A refresh whose failure leaves ensureToken as an exception.
OnRefreshSurfacesFailure(s, h, r, clock) ==
    IF r.ok
    THEN [FetchToken(s, h, r, clock) EXCEPT !.hist[h].path = "refreshOk"]
    ELSE Throw([s EXCEPT !.hist[h].path = "refreshFailed"], h, "[oauth] token error")

\* The refresh_token exchange settles.  A failure is caught and logged;
\* interactiveLogin is next.
OnRefresh(s, h, r, clock) ==
    IF r.ok
    THEN [FetchToken(s, h, r, clock) EXCEPT !.hist[h].path = "refreshOk"]
    ELSE [s EXCEPT !.pc[h] = "login", !.hist[h].path = "refreshFailed"]

\* interactiveLogin(conf, client) up to the await of the callback promise:
\* build the authorization URL, create the server, listen on the fixed port.
\* listen() on a port that is still bound emits 'error' on a server without
\* an 'error' listener: the uncaught exception ends the process.
InteractiveLogin(s, h, state) ==
    IF ~s.as[h].authz THEN Throw(s, h, "Invalid URL")
    ELSE IF s.listener # NoListener
    THEN [s EXCEPT !.status = "crashed", !.hist[h].login = TRUE]
    ELSE [s EXCEPT !.listener = [owner |-> h, state |-> state,
                                 settled |-> "pending", closing |-> FALSE],
                   !.pc[h] = "awaitCallback", !.hist[h].login = TRUE]

\* A callback handler that accepts any state.
OnCallbackIgnoresState(s, q) ==
    LET h == s.listener.owner
        pending == s.listener.settled = "pending"
    IN IF q.path # "/callback" THEN s
       ELSE IF ~q.code
       THEN IF pending
            THEN Throw([s EXCEPT !.listener.settled = "rejected"], h, "state mismatch")
            ELSE s
       ELSE IF pending
       THEN [s EXCEPT !.listener.settled = "resolved", !.listener.closing = TRUE,
                      !.pc[h] = "codeReceived"]
       ELSE [s EXCEPT !.listener.closing = TRUE]

\* The request handler of the callback server.
OnCallback(s, q) ==
    LET h == s.listener.owner
        pending == s.listener.settled = "pending"
    IN IF q.path # "/callback" THEN s
       ELSE IF ~q.code \/ q.state # s.listener.state
       THEN IF pending
            THEN Throw([s EXCEPT !.listener.settled = "rejected"], h, "state mismatch")
            ELSE s
       ELSE IF pending
       THEN [s EXCEPT !.listener.settled = "resolved", !.listener.closing = TRUE,
                      !.pc[h] = "codeReceived"]
       ELSE [s EXCEPT !.listener.closing = TRUE]

\* The callback promise resolved: fetchToken issues the authorization_code
\* exchange.
CodeReceived(s, h) == [s EXCEPT !.pc[h] = "awaitCode", !.hist[h].ncalls = @ + 1]

\* The authorization_code exchange settles.
OnCodeExchange(s, h, r, clock) ==
    IF r.ok THEN FetchToken(s, h, r, clock)
    ELSE Throw(s, h, "[oauth] token error")

\* ----------------------------- forwarding ------------------------------
\* forwardJsonRpcToRemote(json, tok.access_token): the POST is issued.
Forward(s, h) ==
    [s EXCEPT !.pc[h] = "awaitForward", !.hist[h].nfwd = @ + 1,
              !.hist[h].ncalls = @ + 1]

\* A forward that loses the id of the remote's body.
OnForwardDropsId(s, h, st) ==
    LET msg == IF st = "401" THEN "UNAUTHORIZED" ELSE "[remote] 500"
        logged == [s EXCEPT !.hist[h].st1 = IF s.retry[h] THEN @ ELSE st]
    IN IF st = "ok"
       THEN [logged EXCEPT !.res[h] = [RemoteBody(s.req[h]) EXCEPT !.id = Null],
                           !.pc[h] = "write"]
       ELSE IF ~s.retry[h]
       THEN [logged EXCEPT !.err[h] = msg, !.pc[h] = "hrCatch"]
       ELSE Throw(logged, h, msg)

\* The forward POST settles.  Inside the try block a failure goes to
\* handleRequest's catch; inside the catch block (the retry) it leaves
\* handleRequest.
OnForward(s, h, st) ==
    LET msg == IF st = "401" THEN "UNAUTHORIZED" ELSE "[remote] 500"
        logged == [s EXCEPT !.hist[h].st1 = IF s.retry[h] THEN @ ELSE st]
    IN IF st = "ok"
       THEN [logged EXCEPT !.res[h] = RemoteBody(s.req[h]), !.pc[h] = "write"]
       ELSE IF ~s.retry[h]
       THEN [logged EXCEPT !.err[h] = msg, !.pc[h] = "hrCatch"]
       ELSE Throw(logged, h, msg)

\* A catch block that retries after every failure of the forward.
HandleRequestCatchRetriesAll(s, h) ==
    [s EXCEPT !.retry[h] = TRUE, !.pc[h] = "ensureToken"]

\* handleRequest's catch block: retry after UNAUTHORIZED, else build the
\* error response (json.id throws when json is null).
HandleRequestCatch(s, h) ==
    IF s.err[h] = "UNAUTHORIZED"
    THEN [s EXCEPT !.retry[h] = TRUE, !.pc[h] = "ensureToken"]
    ELSE IF ThrowsOnId(s.req[h])
    THEN Throw(s, h, "Cannot read properties of null (reading 'id')")
    ELSE [s EXCEPT !.res[h] = ErrorResp(IdOrNull(s.req[h]), ForwardErrorCode, s.err[h]),
                   !.pc[h] = "write"]

\* --------------------------- run to completion -------------------------
\* The next synchronous step of handler h.
Step(s, h, clock, state) ==
    CASE s.pc[h] = "loop" -> ReadLoop(s, h)
      [] s.pc[h] = "discover" -> Discover(s, h)
      [] s.pc[h] = "ensureClient" -> DynamicRegister(s, h)
      [] s.pc[h] = "ensureToken" -> EnsureToken(s, h, clock)
      [] s.pc[h] = "login" -> InteractiveLogin(s, h, state)
      [] s.pc[h] = "codeReceived" -> CodeReceived(s, h)
      [] s.pc[h] = "forward" -> Forward(s, h)
      [] s.pc[h] = "hrCatch" -> HandleRequestCatch(s, h)
      [] s.pc[h] = "write" -> WriteResult(s, h)
      [] s.pc[h] = "outerCatch" -> OuterCatch(s, h)

\* Handler h runs until it suspends, finishes, or the process ends.  clock
\* is what Date.now() returns during the run, state the value randomBytes
\* yields.
RECURSIVE Run(_, _, _, _)
Run(s, h, clock, state) ==
    IF s.status # "running" \/ s.pc[h] \notin SyncPcs THEN s
    ELSE Run(Step(s, h, clock, state), h, clock, state)

\* The values randomBytes may yield in the run, when the run draws one.
StatesDrawn(s, h, clock) ==
    LET any == CHOOSE v \in StateValues : TRUE
    IN IF Run(s, h, clock, any).listener = s.listener THEN { any } ELSE StateValues

\* The event is delivered, handler h runs to its next suspension.
Deliver(s, h, clock) ==
    /\ status = "running"
    /\ \E s0 \in { s } :
       \E state \in StatesDrawn(s0, h, clock) :
       \E t \in { Run(s0, h, clock, state) } : Become(t)

\* The handler slot a new invocation of the 'data' callback takes.
FreeSlot == CHOOSE h \in Handlers : pc[h] = "done" /\ \A k \in 1..(h-1) : pc[k] # "done"

\* ------------------------------- events --------------------------------
\* process.stdin.on('data', async chunk => { buf += chunk; ...
OnData(c) ==
    /\ \E h \in Handlers : pc[h] = "done"
    /\ nchunks' = nchunks + 1
    /\ input' = input \o c
    /\ \E clock \in ClockReads :
          Deliver([St EXCEPT !.buf = @ \o c, !.pc[FreeSlot] = "loop"], FreeSlot, clock)

StdinData(c) == nchunks < MaxChunks /\ OnData(c)

\* process.stdin.on('end', () => process.exit(0)): the process and all of its
\* memory are gone; the cache files and what was written stay.
StdinEnd ==
    /\ status = "running"
    /\ status' = "exited"
    /\ buf' = <<>>
    /\ pc' = [h \in Handlers |-> "done"]
    /\ req' = [h \in Handlers |-> NoReq]
    /\ retry' = [h \in Handlers |-> FALSE]
    /\ issuer' = [h \in Handlers |-> Undefined]
    /\ as' = [h \in Handlers |-> NoDoc]
    /\ client' = [h \in Handlers |-> NoClient]
    /\ tok' = [h \in Handlers |-> NoToken]
    /\ url' = [h \in Handlers |-> NoUrl]
    /\ err' = [h \in Handlers |-> ""]
    /\ res' = [h \in Handlers |-> ParseErrorResp]
    /\ listener' = NoListener
    /\ hist' = [h \in Handlers |-> EmptyHist]
    /\ UNCHANGED <<nchunks, input, disc, clientCache, tokens, now, issued, output>>

PRMResponse(h, r) ==
    /\ pc[h] = "awaitPRM"
    /\ \E clock \in ClockReads : Deliver(OnPRM(St, h, r), h, clock)
    /\ UNCHANGED <<nchunks, input>>

ASResponse(h, r) ==
    /\ pc[h] = "awaitAS"
    /\ \E clock \in ClockReads : Deliver(OnASMetadata(St, h, r), h, clock)
    /\ UNCHANGED <<nchunks, input>>

RegResponse(h, ok) ==
    /\ pc[h] = "awaitReg"
    /\ \E clock \in ClockReads : Deliver(OnRegistration(St, h, ok), h, clock)
    /\ UNCHANGED <<nchunks, input>>

RefreshResponse(h, r) ==
    /\ pc[h] = "awaitRefresh"
    /\ r.ok => (as[h].token /\ issued < MaxIssued)
    /\ \E clock \in ClockReads : Deliver(OnRefresh(St, h, r, clock), h, clock)
    /\ UNCHANGED <<nchunks, input>>

Callback(q) ==
    /\ listener # NoListener
    /\ \E clock \in ClockReads : Deliver(OnCallback(St, q), listener.owner, clock)
    /\ UNCHANGED <<nchunks, input>>

\* setTimeout(()=>srv.close(),100) fires.
CloseTimer ==
    /\ status = "running"
    /\ listener # NoListener /\ listener.closing
    /\ listener' = NoListener
    /\ UNCHANGED <<status, buf, nchunks, input, pc, req, retry, issuer, as, client,
                   tok, url, err, res, disc, clientCache, tokens, now, issued, output, hist>>

CodeExchangeResponse(h, r) ==
    /\ pc[h] = "awaitCode"
    /\ r.ok => (as[h].token /\ issued < MaxIssued)
    /\ \E clock \in ClockReads : Deliver(OnCodeExchange(St, h, r, clock), h, clock)
    /\ UNCHANGED <<nchunks, input>>

ForwardResponse(h, st) ==
    /\ pc[h] = "awaitForward"
    /\ \E clock \in ClockReads : Deliver(OnForward(St, h, st), h, clock)
    /\ UNCHANGED <<nchunks, input>>

\* --------------------------- specification -----------------------------
Next ==
    \/ \E c \in Chunks(MaxLines - CountNL(input)) : StdinData(c)
    \/ StdinEnd
    \/ CloseTimer
    \/ \E q \in Callbacks : Callback(q)
    \/ \E h \in Handlers :
          \/ \E r \in PRMResponses : PRMResponse(h, r)
          \/ \E r \in ASResponses : ASResponse(h, r)
          \/ \E ok \in BOOLEAN : RegResponse(h, ok)
          \/ \E r \in TokenResponses : RefreshResponse(h, r)
          \/ \E r \in TokenResponses : CodeExchangeResponse(h, r)
          \/ \E st \in ForwardStatuses : ForwardResponse(h, st)

Spec == Init /\ [][Next]_vars

\* --------------- framing: chunks that cut lines anywhere ---------------
\* Everything is cached and the token is fresh, so that each request goes
\* straight to its forward; the chunks cut the stream at any place.
FrameData(c) == nchunks < MaxFrameChunks /\ OnData(c)

FrameInit == Init /\ tokens = CachedToken(TRUE, 3570)

FrameNext ==
    \/ \E c \in FrameChunks : FrameData(c)
    \/ StdinEnd
    \/ \E h \in Handlers, st \in ForwardStatuses : ForwardResponse(h, st)

FrameSpec == FrameInit /\ [][FrameNext]_vars

\* ------------------- the well-known URL, on its own --------------------
\* getASMetadata(issuer) up to its fetch, for any issuer URL.
GetASMetadataURL(u) ==
    /\ url' = [url EXCEPT ![1] = [issuer |-> u, wellKnown |-> AsWellKnownFromIssuer(u)]]
    /\ UNCHANGED <<status, buf, nchunks, input, pc, req, retry, issuer, as, client,
                   tok, err, res, disc, clientCache, tokens, now, listener, issued,
                   output, hist>>

UrlInit == Init /\ disc = NoDoc

UrlNext == \E u \in IssuerURLs : GetASMetadataURL(u)

UrlSpec == UrlInit /\ [][UrlNext]_vars

\* ------------------------------ properties -----------------------------
NoRegistrationMsg == "[oidc] no registration endpoint: enable DCR or pre-provision a client"

IsErrorResp(o) == "error" \in DOMAIN o

Suspended == { h \in Handlers : pc[h] \in WaitPcs }

\* The complete lines of a piece of the input stream.
RECURSIVE Lines(_)
Lines(t) ==
    LET i == IndexOfNL(t)
    IN IF i = 0 THEN <<>>
       ELSE <<SubSeq(t, 1, i - 1)>> \o Lines(SubSeq(t, i + 1, Len(t)))

IsBlank(l) == Trim(l) = <<>>
IsMalformed(l) == ~IsBlank(l) /\ ~JSONParse(Trim(l)).ok

\* The lines taken from the buffer so far, given the stream and the buffer.
ConsumedOf(in, b) == SubSeq(Lines(in), 1, Len(Lines(in)) - Len(Lines(b)))
Consumed == ConsumedOf(input, buf)

CountIn(seq, P(_)) == Cardinality({ i \in 1..Len(seq) : P(seq[i]) })
IsParseError(o) == o = ParseErrorResp
IsNonBlank(l) == ~IsBlank(l)

\* C1: after a 401 on the first forward the cached token is not reused: the
\* retried forward never goes out on ensureToken's fast path.
C1_RetryReacquiresToken ==
    \A h \in Handlers :
        (retry[h] /\ pc[h] = "awaitForward") => hist[h].path # "fast"

\* C2: no exception escapes the per-line handler: the process never ends in
\* the catch block of the stdin handler.
C2_NoExceptionEscapes ==
    ~(status = "crashed" /\ \E h \in Handlers : pc[h] = "outerCatch")

\* C3: the error response that names the missing registration endpoint
\* carries code -32001.
C3_NoRegistrationIs32001 ==
    \A i \in 1..Len(output) :
        (IsErrorResp(output[i]) /\ output[i].error.message = NoRegistrationMsg)
            => output[i].error.code = ForwardErrorCode

\* C4: every forwarding failure, on the first or on the retried forward, is
\* reported with code -32001.
C4_ForwardFailureIs32001 ==
    \A i \in 1..Len(output) :
        (IsErrorResp(output[i])
           /\ output[i].error.message \in { "UNAUTHORIZED", "[remote] 500" })
            => output[i].error.code = ForwardErrorCode

\* C5 (state part): while the process runs, there is exactly one parse-error
\* line on stdout per malformed line taken, every non-blank line taken is
\* answered or in flight, and a complete line waits in the buffer only while
\* a handler is suspended.
C5_Accounting ==
    status = "running" =>
        /\ CountIn(output, IsParseError) = CountIn(Consumed, IsMalformed)
        /\ Len(output) + Cardinality(Suspended) = CountIn(Consumed, IsNonBlank)
        /\ (Suspended = {} => Lines(buf) = <<>>)

\* C5 (step part): a stdin chunk whose processing takes only malformed or
\* blank lines from the buffer writes no cache record and issues no network
\* call.
C5_ParseErrorStep ==
    LET before == Len(Consumed)
        after == ConsumedOf(input', buf')
        new == SubSeq(after, before + 1, Len(after))
    IN (status' = "running" /\ input' # input /\ Len(after) > before
          /\ \A i \in 1..Len(new) : IsBlank(new[i]) \/ IsMalformed(new[i]))
       => /\ disc' = disc /\ clientCache' = clientCache /\ tokens' = tokens
          /\ listener' = listener
          /\ \A h \in Handlers :
                pc'[h] \in WaitPcs => (pc'[h] = pc[h] /\ hist'[h] = hist[h])

\* C5: a line that is not valid JSON yields exactly the parse-error response,
\* no network call and no cache write, and later lines are still processed.
C5_ParseErrorIsolated == []C5_Accounting /\ [][C5_ParseErrorStep]_vars

C5_Witness ==
    /\ status = "running"
    /\ Len(output) = 2
    /\ output[1] = ParseErrorResp
    /\ output[2] # ParseErrorResp
    /\ IsMalformed(Consumed[1])

\* ensureToken was called by handler h in this step.
EnsureCalled(h) ==
    /\ hist'[h].nens >= 1
    /\ hist'[h].seq # hist[h].seq \/ hist'[h].nens > hist[h].nens

\* C6: a call of ensureToken that finds a cached record with expires_at more
\* than 60 seconds ahead returns that record, goes straight on to the forward
\* (no refresh, no login, no listener bound) and leaves the cached record as
\* it was.
C6_FastPathStep ==
    \A h \in Handlers :
        (EnsureCalled(h) /\ tokens # NoToken /\ tokens.expires_at > now' + FreshMargin)
            => /\ pc'[h] = "awaitForward"
               /\ tok'[h] = tokens
               /\ tokens' = tokens
               /\ listener'.settled = "pending" => listener' = listener
               /\ hist'[h].path = "fast"
               /\ ~hist'[h].login

C6_FastPath == [][C6_FastPathStep]_vars

C6_Witness ==
    \E h \in Handlers :
        /\ pc[h] = "awaitForward" /\ hist[h].path = "fast"
        /\ tok[h] = tokens /\ tokens.expires_at > now + FreshMargin

\* C7: when ensureToken finds a stale record with a refresh token, the
\* refresh exchange is issued first; a login is started in that call only
\* after the refresh has failed, and never after it has succeeded.
C7_RefreshBeforeLogin ==
    \A h \in Handlers :
        /\ (hist[h].hadRT /\ hist[h].path \notin { "none", "fast" })
              => hist[h].path \in { "refresh", "refreshOk", "refreshFailed" }
        /\ (hist[h].hadRT /\ hist[h].login) => hist[h].path = "refreshFailed"
        /\ hist[h].path \in { "refresh", "refreshOk" } => ~hist[h].login
        /\ pc[h] \in { "awaitCallback", "awaitCode" } => hist[h].login

C7_Witness ==
    \E h \in Handlers :
        /\ pc[h] = "awaitCallback"
        /\ hist[h].hadRT /\ hist[h].login /\ hist[h].path = "refreshFailed"

\* C8: a request is forwarded at most twice and calls ensureToken at most
\* twice; the second forward and the second ensureToken call follow a 401 on
\* the first forward only.
C8_AtMostOneRetry ==
    \A h \in Handlers :
        /\ hist[h].nfwd <= 2 /\ hist[h].nens <= 2
        /\ hist[h].nfwd <= hist[h].nens
        /\ hist[h].nens = 2 => hist[h].st1 = "401"
        /\ hist[h].st1 \in { "ok", "err" } => hist[h].nfwd = 1
        /\ retry[h] <=> hist[h].nens = 2

C8_Witness ==
    \E h \in Handlers :
        pc[h] = "awaitForward" /\ hist[h].nfwd = 2 /\ hist[h].st1 = "401"

\* C9: once a login attempt is over (its promise resolved or rejected), its
\* listener is closed or the timer that closes it is pending.
C9_ListenerTornDown ==
    (listener # NoListener /\ listener.settled # "pending") => listener.closing

\* C10: no interactive login tries to bind the callback port while the
\* listener of another attempt is still awaiting its callback.
C10_OneListenerAtATime ==
    ~(\E h \in Handlers :
         /\ pc[h] = "login"
         /\ listener # NoListener /\ listener.settled = "pending"
         /\ listener.owner # h)

\* C11: a complete line never waits in the buffer: every line of a chunk has
\* been dispatched by the time the 'data' callback suspends, whatever the
\* state of the requests dispatched before it.
C11_NoLineWaits ==
    status = "running" => Lines(buf) = <<>>

\* C12: with a populated discovery cache, a call of discover and a second
\* call right after it both return the cached document, suspend on no fetch
\* (the caller goes straight on to ensureClient) and leave the cache files
\* as they were.
C12_DiscoverIdempotent ==
    \A h \in Handlers :
        disc # NoDoc =>
            LET first == Discover(St, h)
                second == Discover(first, h)
            IN /\ first.as[h] = disc /\ second.as[h] = first.as[h]
               /\ first.pc[h] = "ensureClient" /\ second.pc[h] = "ensureClient"
               /\ first.disc = disc /\ second.disc = disc
               /\ second.clientCache = clientCache /\ second.tokens = tokens
               /\ second = first

C12_Witness ==
    /\ disc # NoDoc
    /\ \E h1, h2 \in Handlers :
          /\ h1 # h2
          /\ pc[h1] \in WaitPcs /\ pc[h2] \in WaitPcs
          /\ as[h1] = disc /\ as[h2] = disc

\* C13: a step that persists a token record whose response declared a
\* lifetime L (0 included) stamps expires_at = now + L - 30, which is not
\* later than the real expiry now + L.
C13_StampStep ==
    (tokens' # tokens /\ tokens'.expires_in # NoExpiresIn)
        => /\ tokens'.expires_at = now' + tokens'.expires_in - SafetyMargin
           /\ tokens'.expires_at <= now' + tokens'.expires_in

C13_ExpiryStamp == [][C13_StampStep]_vars

\* The discovery document and a client registration of its issuer are
\* cached, and the cached token is fresh at the given clock.
AllCached(clock) ==
    /\ disc # NoDoc
    /\ clientCache # NoClient /\ clientCache.issuer = disc.issuer
    /\ TokenFresh(tokens, clock)

\* C14 (dispatch): with everything cached and the token fresh, a stdin chunk
\* writes no cache record, and every request it dispatches is suspended on
\* its forward POST, the first network call of the request, carrying the
\* cached token.
C14_DispatchStep ==
    (input' # input /\ AllCached(now'))
        => /\ disc' = disc /\ clientCache' = clientCache /\ tokens' = tokens
           /\ \A h \in Handlers :
                 hist'[h].seq # hist[h].seq
                     => /\ pc'[h] = "awaitForward"
                        /\ hist'[h].ncalls = 1 /\ hist'[h].nfwd = 1
                        /\ tok'[h] = tokens

\* C14 (completion): when the forward is the only network call of a request
\* and it succeeds, the next output line is the remote's body, unchanged, and
\* no cache record is written.
C14_Completion ==
    \A h \in Handlers :
        (status = "running" /\ pc[h] = "awaitForward" /\ hist[h].ncalls = 1)
            => LET any == CHOOSE v \in StateValues : TRUE
                   t == Run(OnForward(St, h, "ok"), h, now, any)
               IN /\ Len(t.output) > Len(output)
                  /\ SubSeq(t.output, 1, Len(output)) = output
                  /\ t.output[Len(output) + 1] = RemoteBody(req[h])
                  /\ t.disc = disc /\ t.clientCache = clientCache
                  /\ t.tokens = tokens

\* C14: with cached discovery, client and fresh token, a request whose
\* forward succeeds is answered with the remote's body after exactly one
\* network call and no cache write.
C14_CachedSuccessPath == []C14_Completion /\ [][C14_DispatchStep]_vars

C14_Witness ==
    \E h \in Handlers :
        /\ pc[h] = "awaitForward" /\ hist[h].ncalls = 1
        /\ hist[h].path = "fast" /\ tok[h] = tokens
        /\ req[h] = JReq

\* C15: the URL derived from an issuer with origin O is O, the well-known
\* segment, then the issuer's path without its trailing slashes (nothing
\* when the path is empty or the root).
C15_WellKnownBeforePath ==
    \A h \in Handlers :
        url[h] # NoUrl =>
            LET O == Head(url[h].issuer)
                path == Tail(url[h].issuer)
                w == url[h].wellKnown
                P == SubSeq(w, 3, Len(w))
            IN /\ Len(w) >= 2 /\ w[1] = O /\ w[2] = WellKnownSegment
               \* P is the path up to its last character that is not a slash
               /\ Len(P) <= Len(path)
               /\ P = SubSeq(path, 1, Len(P))
               /\ P # <<>> => P[Len(P)] # Slash
               /\ \A i \in (Len(P) + 1)..Len(path) : path[i] = Slash

C15_Witness ==
    /\ url[1].issuer = <<Issuer, Slash, "a", Slash, "b">>
    /\ url[1].wellKnown = <<Issuer, WellKnownSegment, Slash, "a", Slash, "b">>

\* A request to the callback server that completes the pending attempt: the
\* exact path, a code, and the state generated for the attempt.
GoodCallback(q) ==
    q.path = "/callback" /\ q.code /\ q.state = listener.state

\* C16 (callback): while a login attempt awaits its callback, a request to
\* another path changes nothing; a good callback resolves the attempt and
\* the code exchange is issued; any other request to /callback rejects the
\* attempt with "state mismatch", after which no code exchange is issued and
\* no token record is written.
C16_CallbackOutcome ==
    (status = "running" /\ listener # NoListener /\ listener.settled = "pending")
        => \A q \in Callbacks :
              LET h == listener.owner
                  any == CHOOSE v \in StateValues : TRUE
                  t == OnCallback(St, q)
                  u == Run(t, h, now, any)
              IN IF q.path # "/callback" THEN u = St
                 ELSE IF GoodCallback(q)
                 THEN /\ t.listener.settled = "resolved"
                      /\ u.pc[h] = "awaitCode"
                      /\ u.tokens = tokens /\ u.output = output
                 ELSE /\ t.listener.settled = "rejected"
                      /\ t.pc[h] = "outerCatch" /\ t.err[h] = "state mismatch"
                      /\ u.pc[h] # "awaitCode"
                      /\ u.tokens = tokens /\ u.issued = issued
                      /\ u.status = "running"
                            => u.output[Len(output) + 1] =
                                 ErrorResp(IdOrNull(req[h]), TransportErrorCode,
                                           "state mismatch")

\* C16 (exchange): the authorization_code exchange is issued only in a step
\* that resolves the pending attempt of the same handler.
C16_ExchangeStep ==
    \A h \in Handlers :
        (pc'[h] = "awaitCode" /\ pc[h] # "awaitCode")
            => /\ pc[h] = "awaitCallback"
               /\ listener.owner = h /\ listener.settled = "pending"
               /\ listener'.owner = h /\ listener'.settled = "resolved"
               /\ listener'.state = listener.state
               /\ tokens' = tokens

C17_ReturnedDocComplete ==
    \A h \in Handlers :
        as[h] # NoDoc => (as[h].authz /\ as[h].token)

\* C18 (call): ensureClient(doc) returns the cached registration, with no
\* network call and no write, exactly when its issuer is doc.issuer;
\* otherwise it fails at once when doc has no registration endpoint, and
\* issues the registration POST when it has one.
C18_EnsureClientCall ==
    \A h \in Handlers :
        as[h] # NoDoc =>
            LET t == DynamicRegister(St, h)
                hit == clientCache # NoClient /\ clientCache.issuer = as[h].issuer
            IN /\ t.clientCache = clientCache
               /\ IF hit
                  THEN /\ t.client[h] = clientCache /\ t.pc[h] = "ensureToken"
                       /\ t.hist[h].ncalls = hist[h].ncalls
                  ELSE IF ~as[h].reg
                  THEN /\ t.pc[h] = "outerCatch" /\ t.err[h] = NoRegistrationMsg
                       /\ t.hist[h].ncalls = hist[h].ncalls
                  ELSE /\ t.pc[h] = "awaitReg"
                       /\ t.hist[h].ncalls = hist[h].ncalls + 1

\* C18 (response): a successful registration persists and returns the record
\* {issuer: doc.issuer, client_id, redirect_uris}; a failed one writes
\* nothing.
C18_RegistrationResponse ==
    \A h \in Handlers :
        pc[h] = "awaitReg" =>
            LET ok == OnRegistration(St, h, TRUE)
                failed == OnRegistration(St, h, FALSE)
            IN /\ ok.client[h].issuer = as[h].issuer
               /\ ok.client[h].client_id # Undefined
               /\ ok.client[h].redirect_uris # <<>>
               /\ ok.clientCache = ok.client[h]
               /\ failed.clientCache = clientCache
               /\ failed.pc[h] = "outerCatch"

\* C18: every registration ensureClient(doc) returned has doc's issuer.
C18_ClientMatchesIssuer ==
    /\ \A h \in Handlers : client[h] # NoClient => client[h].issuer = as[h].issuer
    /\ C18_EnsureClientCall
    /\ C18_RegistrationResponse

C18_Witness ==
    \E h \in Handlers :
        /\ pc[h] \in WaitPcs
        /\ client[h] = clientCache
        /\ client[h].client_id = "c1" /\ client[h].issuer = as[h].issuer

\* C19 (response): when the refresh exchange fails, ensureToken goes on to
\* the interactive login with no exception in flight, the token file and
\* stdout untouched; the run then awaits the callback, unless the login
\* itself fails (no authorization endpoint to open, or the port is taken).
C19_RefreshFailureOutcome ==
    \A h \in Handlers :
        (status = "running" /\ pc[h] = "awaitRefresh")
            => \A r \in { x \in TokenResponses : ~x.ok } :
                  LET any == CHOOSE v \in StateValues : TRUE
                      t == OnRefresh(St, h, r, now)
                      u == Run(t, h, now, any)
                  IN /\ t.pc[h] = "login" /\ t.err[h] = err[h]
                     /\ t.tokens = tokens /\ t.output = output
                     /\ u.tokens = tokens /\ u.issued = issued
                     /\ IF ~as[h].authz
                        THEN u.output # output
                                => u.output[Len(output) + 1].error.message = "Invalid URL"
                        ELSE IF listener # NoListener
                        THEN u.status = "crashed" /\ u.output = output
                        ELSE /\ u.pc[h] = "awaitCallback" /\ u.hist[h].login
                             /\ u.listener.owner = h /\ u.output = output

\* C19 (step): the step in which a refresh fails writes no token record and
\* no output line, and starts the interactive login.
C19_RefreshFailureStep ==
    \A h \in Handlers :
        (hist[h].path = "refresh" /\ hist'[h].path = "refreshFailed")
            => /\ tokens' = tokens /\ output' = output
               /\ hist'[h].login
               /\ status' = "running" => pc'[h] = "awaitCallback"

\* C19: a failed refresh is recovered locally: the cached record stays, no
\* error response is written for it, and the interactive login is next.
C19_RefreshFailureRecovered ==
    []C19_RefreshFailureOutcome /\ [][C19_RefreshFailureStep]_vars

C19_Witness ==
    \E h \in Handlers :
        /\ pc[h] = "awaitCallback" /\ hist[h].path = "refreshFailed"
        /\ listener.owner = h /\ listener.settled = "pending"
        /\ tokens = CachedToken(TRUE, 60) /\ output = <<>>

InProgress == { h \in Handlers : pc[h] # "done" }

\* The piece of the stream after its last newline.
RECURSIVE TrailingFragment(_)
TrailingFragment(t) ==
    IF IndexOfNL(t) = 0 THEN t
    ELSE TrailingFragment(SubSeq(t, IndexOfNL(t) + 1, Len(t)))

\* C20: the buffer is the stream from some line boundary on (nothing is
\* dropped or duplicated, and the trailing fragment is still in it); every
\* non-blank line taken so far is answered by exactly one output line or is
\* in progress in exactly one handler; malformed lines account for exactly
\* the parse-error lines; and no complete line is left when no handler is
\* suspended.
C20_LineAccounting ==
    status # "exited" =>
        /\ Len(buf) <= Len(input)
        /\ buf = SubSeq(input, Len(input) - Len(buf) + 1, Len(input))
        /\ Len(buf) < Len(input) => input[Len(input) - Len(buf)] = NL
        /\ TrailingFragment(buf) = TrailingFragment(input)
        /\ Len(output) + Cardinality(InProgress) = CountIn(Consumed, IsNonBlank)
        /\ CountIn(output, IsParseError) = CountIn(Consumed, IsMalformed)
        /\ (status = "running" /\ Suspended = {}) => Lines(buf) = <<>>

C20_Witness ==
    /\ status = "running"
    /\ input = <<TxtReq, NL, TxtReqHead, TxtReqTail, NL>>
    /\ nchunks = 2 /\ buf = <<>>
    /\ \A h \in Handlers : pc[h] = "awaitForward" /\ req[h] = JReq

\* C21 (exchange): whatever record is cached, a successful refresh or code
\* exchange persists a record made of the response's fields and expires_at
\* only: its refresh token is the response's (none when the response has
\* none), its lifetime the response's, its access token the new one; and the
\* record returned to the request is the persisted one.
C21_ExchangeReplacesRecord ==
    \A h \in Handlers :
        (status = "running" /\ pc[h] \in { "awaitRefresh", "awaitCode" })
            => \A r \in { x \in TokenResponses : x.ok } :
                  LET t == IF pc[h] = "awaitRefresh"
                           THEN OnRefresh(St, h, r, now)
                           ELSE OnCodeExchange(St, h, r, now)
                  IN /\ t.tokens.refresh = r.refresh
                     /\ t.tokens.expires_in = r.expires_in
                     /\ t.tokens.access = issued + 1
                     /\ t.tokens.access # tokens.access
                     /\ t.tokens.expires_at = StampExpiry(now, r.expires_in)
                     /\ DOMAIN t.tokens = { "access", "refresh", "expires_in", "expires_at" }
                     /\ t.tok[h] = t.tokens

\* C21 (next call): ensureToken on a stale record without a refresh token
\* issues no refresh and goes to the interactive login.
C21_StaleWithoutRefresh ==
    \A h \in Handlers :
        (tokens # NoToken /\ ~tokens.refresh /\ ~TokenFresh(tokens, now))
            => LET t == EnsureToken(St, h, now)
               IN /\ t.pc[h] = "login" /\ t.hist[h].path = "direct"
                  /\ t.hist[h].ncalls = hist[h].ncalls
                  /\ t.tokens = tokens

\* C21: the persisted token record is replaced as a whole by each successful
\* exchange; a refresh is attempted only by a call that found a refresh token
\* in the record, so after a response without refresh_token the next call
\* that finds the token stale goes directly to the interactive login.
C21_RecordReplaced ==
    /\ C21_ExchangeReplacesRecord
    /\ C21_StaleWithoutRefresh
    /\ \A h \in Handlers :
          /\ hist[h].path \in { "refresh", "refreshOk", "refreshFailed" } => hist[h].hadRT
          /\ (hist[h].path = "direct" /\ tokens # NoToken /\ pc[h] = "awaitCallback")
                => ~hist[h].hadRT

\* An exchange whose response had no refresh_token replaced the cached
\* record, and a later call of ensureToken, finding the token stale, went
\* directly to the login.
C21_Witness ==
    \E h \in Handlers :
        /\ tokens.access >= 1 /\ ~tokens.refresh
        /\ pc[h] = "awaitCallback"
        /\ hist[h].path = "direct" /\ hist[h].login /\ ~hist[h].hadRT

====
